---- MODULE Spec2Model ----
(***************************************************************************)
(* Model of src/gateway/server-methods/agent-timestamp.ts:                 *)
(*   injectTimestamp(message, opts?) and timestampOptsFromConfig(cfg).     *)
(*                                                                         *)
(* Strings are sequences of one-character strings.  The two module-level   *)
(* RegExp objects are modelled with their flags and their lastIndex slot,  *)
(* and RegExp.prototype.test is modelled as a backtracking matcher driven  *)
(* by RegExpBuiltinExec.  The collaborators of ../../agents/date-time.js   *)
(* are an environment: formatUserTime returns a string, returns undefined  *)
(* or raises.  JavaScript runs a call to completion, so at most one call   *)
(* of this module is in progress at a time.                                *)
(***************************************************************************)
EXTENDS Integers, Sequences, FiniteSets, TLC

VARIABLES
    pc,                 \* "idle" | "ready" | "formatting" | "returned" | "threw"
    message,            \* argument `message` of the call in progress / last call
    opts,               \* argument `opts` of the call in progress / last call
    cfg,                \* argument of the last timestampOptsFromConfig call
    fmtArgs,            \* arguments handed to formatUserTime (line 55)
    formatted,          \* what formatUserTime returned (line 55)
    raised,             \* the error a collaborator raised during the call
    outcome,            \* how the call ended: value returned or error thrown
    envelopeLastIndex,  \* ENVELOPE_PATTERN.lastIndex
    cronLastIndex,      \* CRON_TIME_PATTERN.lastIndex
    prior,              \* the call whose output is this call's message
    earlier             \* whether the call before this one matched a pattern

vars == <<pc, message, opts, cfg, fmtArgs, formatted, raised, outcome,
          envelopeLastIndex, cronLastIndex, prior, earlier>>

----------------------------------------------------------------------------
(* Bounds *)

MaxFrags == 3       \* a message is a concatenation of at most MaxFrags fragments
MaxRestamp == 1     \* how many times in a row a caller feeds an output back in

----------------------------------------------------------------------------
(* Characters *)

Digits == {"0", "1", "2", "3", "4", "5", "6", "7", "8", "9"}

LowerCase == {"a", "b", "c", "d", "e", "f", "g", "h", "i", "j", "k", "l", "m",
              "n", "o", "p", "q", "r", "s", "t", "u", "v", "w", "x", "y", "z"}

UpperCase == {"A", "B", "C", "D", "E", "F", "G", "H", "I", "J", "K", "L", "M",
              "N", "O", "P", "Q", "R", "S", "T", "U", "V", "W", "X", "Y", "Z"}

\* ECMAScript LineTerminator: what `.` does not match (no s flag).
IsLineTerminator(c) == c \in {"\n", "\r"}

\* A faulty IsWhiteSpace: only the space character counts as white space.
IsWhiteSpaceOnlySpace(c) == c = " "

\* What String.prototype.trim strips: WhiteSpace and LineTerminator.
IsWhiteSpace(c) == c \in {" ", "\t", "\f", "\n", "\r"}

\* A faulty IsWordChar: the class [a-z] instead of \w.
IsWordCharLowerOnly(c) == c \in LowerCase

\* The class \w (no u/i flags): [A-Za-z0-9_].
IsWordChar(c) == c \in LowerCase \cup UpperCase \cup Digits \cup {"_"}

\* The class \d: [0-9].
IsDigit(c) == c \in Digits

\* The atom `.`: any character but a line terminator.
IsDot(c) == ~IsLineTerminator(c)

----------------------------------------------------------------------------
(* String.prototype.trim *)

RECURSIVE TrimStart(_)
TrimStart(s) ==
    IF s # <<>> /\ IsWhiteSpace(Head(s)) THEN TrimStart(Tail(s)) ELSE s

RECURSIVE TrimEnd(_)
TrimEnd(s) ==
    IF s # <<>> /\ IsWhiteSpace(s[Len(s)])
    THEN TrimEnd(SubSeq(s, 1, Len(s) - 1))
    ELSE s

Trim(s) == TrimEnd(TrimStart(s))

----------------------------------------------------------------------------
(* The two patterns.  Positions are 0-based as in ECMAScript: position p   *)
(* is the character s[p + 1].  A matcher returns the set of end positions  *)
(* its continuation can be tried from, as the backtracking engine would.   *)

CharAt(s, p) == s[p + 1]

InRange(s, p) == p >= 0 /\ p < Len(s)

\* A literal character at position p: {p + 1} or no match.
MatchChar(s, p, c) ==
    IF InRange(s, p) /\ CharAt(s, p) = c THEN {p + 1} ELSE {}

\* \d{n} at position p.
RECURSIVE MatchDigits(_, _, _)
MatchDigits(s, p, n) ==
    IF n = 0 THEN {p}
    ELSE IF InRange(s, p) /\ IsDigit(CharAt(s, p)) THEN MatchDigits(s, p + 1, n - 1)
    ELSE {}

\* [\w]+ at position p: every end position the quantifier can give back.
RECURSIVE MatchWordPlus(_, _)
MatchWordPlus(s, p) ==
    IF InRange(s, p) /\ IsWordChar(CharAt(s, p))
    THEN {p + 1} \cup MatchWordPlus(s, p + 1)
    ELSE {}

\* .+ at position p: every end position the quantifier can give back.
RECURSIVE MatchDotPlus(_, _)
MatchDotPlus(s, p) ==
    IF InRange(s, p) /\ IsDot(CharAt(s, p))
    THEN {p + 1} \cup MatchDotPlus(s, p + 1)
    ELSE {}

\* A faulty MatchDate: the date left out of the pattern.
MatchDateDropped(s, p) == {p}

\* \d{4}-\d{2}-\d{2} at position p.
MatchDate(s, p) ==
    UNION { UNION { MatchDigits(s, c, 2)
                    : c \in UNION { MatchChar(s, b, "-") : b \in MatchDigits(s, a, 2) } }
            : a \in UNION { MatchChar(s, y, "-") : y \in MatchDigits(s, p, 4) } }

SetMax(S) == CHOOSE x \in S : \A y \in S : y <= x

\* /^\[[\w]+ .+ \d{4}-\d{2}-\d{2}/ tried at position p: the end position of
\* the match the engine finds (greedy quantifiers), or -1.
EnvelopeMatchAt(s, p) ==
    LET afterBracket == IF p = 0 THEN MatchChar(s, p, "[") ELSE {}
        afterWord == UNION { MatchWordPlus(s, a) : a \in afterBracket }
        afterSp1 == UNION { MatchChar(s, a, " ") : a \in afterWord }
        afterDot == UNION { MatchDotPlus(s, a) : a \in afterSp1 }
        afterSp2 == UNION { MatchChar(s, a, " ") : a \in afterDot }
        ends == UNION { MatchDate(s, a) : a \in afterSp2 }
    IN  IF ends = {} THEN -1 ELSE SetMax(ends)

CronLiteral == <<"C", "u", "r", "r", "e", "n", "t", " ", "t", "i", "m", "e", ":", " ">>

\* A faulty CronMatchAt: the pattern anchored, /^Current time: /.
CronMatchAtAnchored(s, p) ==
    IF p = 0 /\ Len(s) >= Len(CronLiteral)
       /\ SubSeq(s, 1, Len(CronLiteral)) = CronLiteral
    THEN Len(CronLiteral)
    ELSE -1

\* /Current time: / tried at position p: the end position of the match, or -1.
CronMatchAt(s, p) ==
    IF p + Len(CronLiteral) <= Len(s)
       /\ SubSeq(s, p + 1, p + Len(CronLiteral)) = CronLiteral
    THEN p + Len(CronLiteral)
    ELSE -1

\* A faulty ENVELOPE_PATTERN: the pattern written with the g flag.
ENVELOPE_PATTERN_Global == [source |-> "envelope", global |-> TRUE]

ENVELOPE_PATTERN == [source |-> "envelope", global |-> FALSE]

CRON_TIME_PATTERN == [source |-> "cron", global |-> FALSE]

MatchAt(R, s, p) ==
    IF R.source = "envelope" THEN EnvelopeMatchAt(s, p) ELSE CronMatchAt(s, p)

\* The scan of RegExpBuiltinExec: the first position >= p where R matches.
RECURSIVE ScanFrom(_, _, _)
ScanFrom(R, s, p) ==
    IF p > Len(s) THEN [found |-> FALSE, end |-> 0]
    ELSE IF MatchAt(R, s, p) >= 0 THEN [found |-> TRUE, end |-> MatchAt(R, s, p)]
    ELSE ScanFrom(R, s, p + 1)

\* RegExp.prototype.test: the scan starts at lastIndex only under the g flag,
\* and only then is lastIndex written (the match end, or 0 on failure).
RegExpTest(R, s, lastIndex) ==
    LET start == IF R.global THEN lastIndex ELSE 0
        r == ScanFrom(R, s, start)
    IN  [found |-> r.found,
         lastIndex |-> IF R.global THEN (IF r.found THEN r.end ELSE 0) ELSE lastIndex]

----------------------------------------------------------------------------
(* Values *)

Absent == "<absent>"          \* the property is not on the object
Undefined == "<undefined>"    \* the value undefined

\* TimestampInjectionOptions; given = FALSE is the omitted `opts` argument.
NoOpts == [given |-> FALSE, timezone |-> Absent, timeFormat |-> Absent, now |-> Absent]

\* opts?.key
OptionalMember(o, key) ==
    IF ~o.given \/ o[key] = Absent THEN Undefined ELSE o[key]

\* A faulty Nullish: `||` in place of `??`, so the empty string defaults too.
NullishAsOr(v, d) == IF v \in {Undefined, ""} THEN d ELSE v

\* v ?? d
Nullish(v, d) == IF v = Undefined THEN d ELSE v

\* The instants `new Date()` can read.
Clock == {"T0"}

\* Options a caller writes by hand: none, {}, each field alone, all three.
HandOptions ==
    { NoOpts,
      [given |-> TRUE, timezone |-> Absent, timeFormat |-> Absent, now |-> Absent],
      [given |-> TRUE, timezone |-> "", timeFormat |-> Absent, now |-> Absent],
      [given |-> TRUE, timezone |-> Absent, timeFormat |-> "24", now |-> Absent],
      [given |-> TRUE, timezone |-> Absent, timeFormat |-> Absent, now |-> "T1"],
      [given |-> TRUE, timezone |-> "Asia/Tokyo", timeFormat |-> "24", now |-> "T1"] }

\* MoltbotConfig, as far as it is read: which levels of agents.defaults exist.
Configs ==
    { [agents |-> FALSE, defaults |-> FALSE, userTimezone |-> Absent, timeFormat |-> Absent],
      [agents |-> TRUE, defaults |-> FALSE, userTimezone |-> Absent, timeFormat |-> Absent],
      [agents |-> TRUE, defaults |-> TRUE, userTimezone |-> Absent, timeFormat |-> Absent],
      [agents |-> TRUE, defaults |-> TRUE, userTimezone |-> "America/New_York",
       timeFormat |-> Absent],
      [agents |-> TRUE, defaults |-> TRUE, userTimezone |-> Absent, timeFormat |-> "24"],
      [agents |-> TRUE, defaults |-> TRUE, userTimezone |-> "America/New_York",
       timeFormat |-> "auto"] }

NoConfig == [agents |-> FALSE, defaults |-> FALSE, userTimezone |-> Absent,
             timeFormat |-> Absent]

\* cfg.agents?.defaults?.key
ConfigMember(c, key) ==
    IF ~c.agents \/ ~c.defaults \/ c[key] = Absent THEN Undefined ELSE c[key]

----------------------------------------------------------------------------
(* Collaborators of ../../agents/date-time.js *)

HostTimezone == "Europe/Berlin"

\* resolveUserTimezone: the preference, or the process default when absent.
resolveUserTimezone(preference) ==
    IF preference = Undefined THEN HostTimezone ELSE preference

\* resolveUserTimeFormat: the formatter's own representation of the preference.
resolveUserTimeFormat(preference) ==
    IF preference = "24" THEN "24-hour" ELSE "12-hour"

DateText == <<"2", "0", "2", "6", "-", "0", "1", "-", "2", "8">>

\* A time without a date, "Wed 8:31 PM".
TimeOnly == <<"W", "e", "d", " ", "8", ":", "3", "1", " ", "P", "M">>

\* A time with a date, "Wed at 2026-01-28".
Dated == <<"W", "e", "d", " ", "a", "t", " ">> \o DateText

NoFormatted == [kind |-> "none", text |-> <<>>]

\* formatUserTime: what it can hand back; it may also raise.
FormatterResults ==
    { [kind |-> "string", text |-> <<>>],
      [kind |-> "undefined", text |-> <<>>],
      [kind |-> "string", text |-> TimeOnly],
      [kind |-> "string", text |-> Dated] }

NoError == "<none>"

CollaboratorErrors == {"RangeError"}

----------------------------------------------------------------------------
(* Messages *)

Fragments ==
    { <<"[", "D", "1", "_", " ", "x">>,     \* "[D1_ x"
      <<"b">>,
      <<" ">>,
      <<"\n">>,
      DateText,
      CronLiteral }

RECURSIVE MessagesUpTo(_)
MessagesUpTo(n) ==
    IF n = 0 THEN {<<>>}
    ELSE LET shorter == MessagesUpTo(n - 1)
         IN  shorter \cup {m \o f : m \in shorter, f \in Fragments}

Messages == MessagesUpTo(MaxFrags)

----------------------------------------------------------------------------
(* injectTimestamp and timestampOptsFromConfig *)

NoOutcome == [kind |-> "none", value |-> <<>>, error |-> NoError]

Returned(v) == [kind |-> "returned", value |-> v, error |-> NoError]

\* A faulty Propagate: the raise is caught and the message passed through.
PropagateCaught(m, e) == Returned(m)

\* Line 55 stands in no try block: what a collaborator raises leaves the call.
Propagate(m, e) == [kind |-> "threw", value |-> <<>>, error |-> e]

\* A faulty Falsy: only undefined is tested for.
FalsyOnlyUndefined(f) == f.kind = "undefined"

\* !formatted
Falsy(f) == f.kind = "undefined" \/ f.text = <<>>

\* A faulty Stamp: the message is trimmed before it is prefixed.
StampTrimmed(f, m) == <<"[">> \o f \o <<"]", " ">> \o Trim(m)

\* `[${formatted}] ${message}`
Stamp(f, m) == <<"[">> \o f \o <<"]", " ">> \o m

\* !message.trim()
IsBlank(m) == Trim(m) = <<>>

\* Lines 51-55: the arguments of formatUserTime.
FormatArgs(o, clock) ==
    [now |-> Nullish(OptionalMember(o, "now"), clock),
     timezone |-> Nullish(OptionalMember(o, "timezone"), "UTC"),
     format |-> resolveUserTimeFormat(Nullish(OptionalMember(o, "timeFormat"), "12"))]

NoArgs == [now |-> Absent, timezone |-> Absent, format |-> Absent]

\* A faulty timestampOptsFromConfig: the time format is defaulted here.
timestampOptsFromConfigDefaulting(c) ==
    [given |-> TRUE,
     timezone |-> resolveUserTimezone(ConfigMember(c, "userTimezone")),
     timeFormat |-> Nullish(ConfigMember(c, "timeFormat"), "12"),
     now |-> Absent]

timestampOptsFromConfig(c) ==
    [given |-> TRUE,
     timezone |-> resolveUserTimezone(ConfigMember(c, "userTimezone")),
     timeFormat |-> ConfigMember(c, "timeFormat"),
     now |-> Absent]

NoPrior == [depth |-> 0, message |-> <<>>, formatted |-> <<>>]

----------------------------------------------------------------------------
(* State machine *)

Init ==
    /\ pc = "idle"
    /\ message = <<>>
    /\ opts = NoOpts
    /\ cfg = NoConfig
    /\ fmtArgs = NoArgs
    /\ formatted = NoFormatted
    /\ raised = NoError
    /\ outcome = NoOutcome
    /\ envelopeLastIndex = 0
    /\ cronLastIndex = 0
    /\ prior = NoPrior
    /\ earlier = FALSE

CanCall == pc = "idle"

\* Lines 43-55 of a call injectTimestamp(m, o): the three guards, then the
\* call of formatUserTime with the resolved arguments.
Enter(m, o) ==
    LET blank == IsBlank(m)
        env == RegExpTest(ENVELOPE_PATTERN, m, envelopeLastIndex)
        cron == RegExpTest(CRON_TIME_PATTERN, m, cronLastIndex)
        skip == blank \/ env.found \/ cron.found
    IN  /\ message' = m
        /\ opts' = o
        /\ cfg' = NoConfig
        /\ formatted' = NoFormatted
        /\ raised' = NoError
        /\ earlier' = earlier
        /\ envelopeLastIndex' = IF blank THEN envelopeLastIndex ELSE env.lastIndex
        /\ cronLastIndex' = IF blank \/ env.found THEN cronLastIndex ELSE cron.lastIndex
        /\ IF skip
           THEN /\ pc' = "returned"
                /\ outcome' = Returned(m)
                /\ fmtArgs' = NoArgs
           ELSE /\ pc' = "formatting"
                /\ outcome' = NoOutcome
                /\ \E clock \in Clock : fmtArgs' = FormatArgs(o, clock)

\* A caller invokes injectTimestamp(m, o) with options written by hand.
Inject ==
    /\ CanCall
    /\ prior' = NoPrior
    /\ \E m \in Messages, o \in HandOptions : Enter(m, o)

\* A caller builds the options from a config.
TimestampOptsFromConfig ==
    /\ CanCall
    /\ pc' = "ready"
    /\ \E c \in Configs :
          /\ cfg' = c
          /\ opts' = timestampOptsFromConfig(c)
    /\ message' = <<>>
    /\ fmtArgs' = NoArgs
    /\ formatted' = NoFormatted
    /\ raised' = NoError
    /\ outcome' = NoOutcome
    /\ prior' = NoPrior
    /\ UNCHANGED <<envelopeLastIndex, cronLastIndex, earlier>>

\* The caller invokes injectTimestamp(m, timestampOptsFromConfig(cfg)).
InjectWithConfigOpts ==
    /\ pc = "ready"
    /\ prior' = NoPrior
    /\ \E m \in Messages : Enter(m, opts)

\* A caller feeds the stamped output of the last call back in, with no
\* options: injectTimestamp(injectTimestamp(m, o)).
Reinject ==
    /\ pc = "returned"
    /\ outcome.value # message
    /\ prior.depth < MaxRestamp
    /\ prior' = [depth |-> prior.depth + 1, message |-> message,
                 formatted |-> formatted.text]
    /\ Enter(outcome.value, NoOpts)

\* Lines 55-58: formatUserTime returns f.
FormatReturns ==
    /\ pc = "formatting"
    /\ pc' = "returned"
    /\ \E f \in FormatterResults :
          /\ formatted' = f
          /\ outcome' = Returned(IF Falsy(f) THEN message ELSE Stamp(f.text, message))
    /\ UNCHANGED <<message, opts, cfg, fmtArgs, raised, envelopeLastIndex,
                   cronLastIndex, prior, earlier>>

\* Line 55: resolveUserTimeFormat or formatUserTime raises e.
CollaboratorRaises ==
    /\ pc = "formatting"
    /\ \E e \in CollaboratorErrors :
          /\ raised' = e
          /\ outcome' = Propagate(message, e)
    /\ pc' = IF outcome'.kind = "threw" THEN "threw" ELSE "returned"
    /\ UNCHANGED <<message, opts, cfg, fmtArgs, formatted, envelopeLastIndex,
                   cronLastIndex, prior, earlier>>

\* The finished call got past the blank test and one of the patterns matched.
PatternMatched ==
    pc = "returned" /\ formatted.kind = "none" /\ ~IsBlank(message)

\* The caller is done with the result; the module's patterns live on.
Forget ==
    /\ pc \in {"returned", "threw"}
    /\ pc' = "idle"
    /\ earlier' = PatternMatched
    /\ message' = <<>>
    /\ opts' = NoOpts
    /\ cfg' = NoConfig
    /\ fmtArgs' = NoArgs
    /\ formatted' = NoFormatted
    /\ raised' = NoError
    /\ outcome' = NoOutcome
    /\ prior' = NoPrior
    /\ UNCHANGED <<envelopeLastIndex, cronLastIndex>>

Next ==
    \/ Inject
    \/ TimestampOptsFromConfig
    \/ InjectWithConfigOpts
    \/ Reinject
    \/ FormatReturns
    \/ CollaboratorRaises
    \/ Forget

Spec == Init /\ [][Next]_vars

----------------------------------------------------------------------------
(* The vocabulary of the properties, written from their wording and not    *)
(* from the matcher above.  Indices are 1-based sequence indices.          *)

BlankChars == {" ", "\t", "\f", "\n", "\r"}

LineBreaks == {"\n", "\r"}

DigitChars == {"0", "1", "2", "3", "4", "5", "6", "7", "8", "9"}

WordChars == LowerCase \cup UpperCase \cup DigitChars \cup {"_"}

OnlyWhitespace(m) == \A i \in 1..Len(m) : m[i] \in BlankChars

\* A date YYYY-MM-DD begins at index i.
DateBeginsAt(m, i) ==
    /\ i >= 1
    /\ i + 9 <= Len(m)
    /\ m[i + 4] = "-"
    /\ m[i + 7] = "-"
    /\ \A k \in {0, 1, 2, 3, 5, 6, 8, 9} : m[i + k] \in DigitChars

ContainsDate(m) == \E i \in 1..Len(m) : DateBeginsAt(m, i)

CurrentTimeText == <<"C", "u", "r", "r", "e", "n", "t", " ", "t", "i", "m", "e", ":", " ">>

CurrentTimeAt(m, i) ==
    /\ i >= 1
    /\ i + 13 <= Len(m)
    /\ m[i] = "C"
    /\ SubSeq(m, i, i + 13) = CurrentTimeText

ContainsCurrentTime(m) == \E i \in 1..Len(m) : CurrentTimeAt(m, i)

\* "[", word characters up to index w, a space, one or more arbitrary
\* characters, then a date beginning at index d.
LooseEnvelope(m) ==
    /\ m # <<>>
    /\ m[1] = "["
    /\ \E w \in 2..(Len(m) - 1) :
          /\ m[w + 1] = " "
          /\ \A k \in 2..w : m[k] \in WordChars
          /\ \E d \in (w + 3)..Len(m) : DateBeginsAt(m, d)

\* "[", word characters up to index w, a space, one or more characters none
\* of which is a line break, a space, then a date beginning at index d.
Envelope(m) ==
    /\ m # <<>>
    /\ m[1] = "["
    /\ \E w \in 2..(Len(m) - 1) :
          /\ m[w + 1] = " "
          /\ \A k \in 2..w : m[k] \in WordChars
          /\ \E d \in (w + 4)..Len(m) :
                /\ m[d - 1] = " "
                /\ DateBeginsAt(m, d)
                /\ \A k \in (w + 2)..(d - 2) : m[k] \notin LineBreaks

PassesGuards(m) ==
    ~OnlyWhitespace(m) /\ ~ContainsCurrentTime(m) /\ ~Envelope(m)

Prefixed(f, m) == <<"[">> \o f \o <<"]", " ">> \o m

CallBegun == pc \in {"formatting", "returned", "threw"}

ReachedFormatting == pc \in {"formatting", "threw"} \/ formatted.kind # "none"

GotTime == formatted.kind = "string" /\ formatted.text # <<>>

Provided(o, key) == o.given /\ o[key] \notin {Absent, Undefined}

\* config.agents.defaults.key, undefined when a level of the path is missing.
ConfigPath(c, key) ==
    IF c.agents /\ c.defaults /\ c[key] # Absent THEN c[key] ELSE Undefined

----------------------------------------------------------------------------
(* Properties *)

\* C1: a message that is not blank, is no envelope and holds no
\* "Current time: " comes back as "[" + F + "] " + message, untrimmed,
\* whenever the formatter returns a non-empty F.
C1_StampedUntrimmed ==
    (pc = "returned" /\ PassesGuards(message) /\ GotTime)
        => outcome.value = Prefixed(formatted.text, message)

C1_Witness ==
    /\ pc = "returned"
    /\ PassesGuards(message)
    /\ GotTime
    /\ message[1] = " "
    /\ message[Len(message)] = "\n"
    /\ outcome.value = Prefixed(formatted.text, message)

\* C2 as stated: every message of the form "[", word characters, a space,
\* one or more arbitrary characters, a date comes back unchanged.
C2_AsStated ==
    (pc = "returned" /\ LooseEnvelope(message)) => outcome.value = message

\* C2 amended: every message of the form "[", word characters, a space, one
\* or more characters other than line breaks, a space, a date comes back
\* unchanged, and the formatter is never consulted for it.
C2_EnvelopeUnchanged ==
    (CallBegun /\ Envelope(message))
        => /\ pc = "returned"
           /\ outcome.value = message
           /\ formatted.kind = "none"

C2_Witness ==
    /\ pc = "returned"
    /\ prior.depth = 0
    /\ Envelope(message)
    /\ outcome.value = message

\* C3: a message holding "Current time: " at any position comes back
\* unchanged, and the formatter is never consulted for it.
C3_CronUnchanged ==
    (CallBegun /\ ContainsCurrentTime(message))
        => /\ pc = "returned"
           /\ outcome.value = message
           /\ formatted.kind = "none"

C3_Witness ==
    /\ pc = "returned"
    /\ Len(message) > 15
    /\ ~CurrentTimeAt(message, 1)
    /\ ~CurrentTimeAt(message, Len(message) - 13)
    /\ ContainsCurrentTime(message)
    /\ outcome.value = message

\* C4: an empty or whitespace-only message comes back as it was passed,
\* not trimmed.
C4_BlankUnchanged ==
    (CallBegun /\ OnlyWhitespace(message))
        => /\ pc = "returned"
           /\ outcome.value = message
           /\ formatted.kind = "none"

C4_Witness ==
    /\ pc = "returned"
    /\ Len(message) >= 2
    /\ OnlyWhitespace(message)
    /\ \E i \in 1..Len(message) : message[i] = "\n"
    /\ outcome.value = message

\* C5: when the formatter returns the empty string the message comes back
\* unchanged; no call returns "[] " + message.
C5_FailOpen ==
    pc = "returned"
        => /\ (formatted.kind = "string" /\ formatted.text = <<>>)
                => outcome.value = message
           /\ outcome.value # Prefixed(<<>>, message)

C5_Witness ==
    /\ pc = "returned"
    /\ PassesGuards(message)
    /\ formatted.kind = "string"
    /\ formatted.text = <<>>
    /\ outcome.value = message

\* C6: the formatter is called with options.now when provided, with
\* options.timezone when provided and "UTC" otherwise, and with the format
\* resolved from options.timeFormat when provided and from "12" otherwise.
C6_FormatterArguments ==
    ReachedFormatting
        => /\ Provided(opts, "now") => fmtArgs.now = opts.now
           /\ ~Provided(opts, "now") => fmtArgs.now \in Clock
           /\ fmtArgs.timezone =
                 IF Provided(opts, "timezone") THEN opts.timezone ELSE "UTC"
           /\ fmtArgs.format =
                 resolveUserTimeFormat(
                     IF Provided(opts, "timeFormat") THEN opts.timeFormat ELSE "12")

C6_Witness ==
    /\ pc = "formatting"
    /\ opts.given
    /\ opts.timezone = ""
    /\ opts.timeFormat = Absent
    /\ fmtArgs.timezone = ""
    /\ fmtArgs.format = resolveUserTimeFormat("12")

\* C7: timestampOptsFromConfig gives the resolved agents.defaults.userTimezone
\* and agents.defaults.timeFormat verbatim, and no now field.
C7_OptsFromConfig ==
    pc = "ready"
        => /\ opts.given
           /\ opts.timezone = resolveUserTimezone(ConfigPath(cfg, "userTimezone"))
           /\ opts.timeFormat = ConfigPath(cfg, "timeFormat")
           /\ opts.now = Absent
           /\ ~cfg.agents => (opts.timezone = HostTimezone /\ opts.timeFormat = Undefined)

C7_Witness ==
    /\ pc = "ready"
    /\ ~cfg.agents
    /\ opts.timezone = HostTimezone
    /\ opts.timeFormat = Undefined
    /\ opts.now = Absent

\* C8: a call ends in an error exactly when a collaborator raised, and the
\* error is the one the collaborator raised.
C8_RaisePropagates ==
    /\ pc = "threw" => (raised # NoError /\ outcome.kind = "threw" /\ outcome.error = raised)
    /\ raised # NoError => (pc = "threw" /\ outcome.kind = "threw" /\ outcome.error = raised)
    /\ pc = "returned" => (outcome.kind = "returned" /\ raised = NoError)

C8_Witness ==
    /\ pc = "threw"
    /\ raised = "RangeError"
    /\ outcome.error = "RangeError"

\* C9: no call leaves anything behind in the two patterns, and every call's
\* course is the one its own message and its own formatter result give.
C9_CallsIndependent ==
    /\ envelopeLastIndex = 0
    /\ cronLastIndex = 0
    /\ CallBegun => (ReachedFormatting <=> PassesGuards(message))
    /\ pc = "returned"
          => outcome.value = IF PassesGuards(message) /\ GotTime
                             THEN Prefixed(formatted.text, message)
                             ELSE message

C9_Witness ==
    /\ earlier
    /\ pc = "returned"
    /\ Envelope(message)
    /\ outcome.value = message

\* C10 as stated: after a first stamp "[F] m" with F holding no date, a
\* second call on "[F] m" stamps again and returns "[F2] [F] m".
C10_AsStated ==
    (pc = "returned" /\ prior.depth >= 1 /\ ~ContainsDate(prior.formatted)
        /\ (formatted.kind = "none" \/ GotTime))
        => outcome.value =
              Prefixed(formatted.text, Prefixed(prior.formatted, prior.message))

\* C10 amended: the same, for m holding no date either and F holding no
\* "Current time: ", when the second formatter call returns a non-empty F2.
C10_Restamped ==
    (CallBegun /\ prior.depth >= 1 /\ ~ContainsDate(prior.formatted)
        /\ ~ContainsDate(prior.message) /\ ~ContainsCurrentTime(prior.formatted))
        => /\ message = Prefixed(prior.formatted, prior.message)
           /\ ReachedFormatting
           /\ (pc = "returned" /\ GotTime)
                 => outcome.value =
                       Prefixed(formatted.text, Prefixed(prior.formatted, prior.message))

C10_Witness ==
    /\ pc = "returned"
    /\ prior.depth >= 1
    /\ ~ContainsDate(prior.formatted)
    /\ ~ContainsDate(prior.message)
    /\ GotTime
    /\ outcome.value =
          Prefixed(formatted.text, Prefixed(prior.formatted, prior.message))

====
